---- MODULE Spec2Model ----
(***************************************************************************)
(* Model of the aperture-backend request handlers: the folder manager      *)
(* (app/folders/routes.py) and the project manager (app/projects/routes.py)*)
(* over the document store collections and the data directory, and the     *)
(* identity and token handlers (app/auth/routes.py, app/core/security.py)  *)
(* over the users collection and the clock.                                *)
(*                                                                         *)
(* Handlers are coroutines on one event loop: a handler runs atomically    *)
(* from one await to the next, so each store operation (find_one,          *)
(* insert_one, update_one, ...) is one step, and the synchronous           *)
(* filesystem block between two awaits is one step.  Several requests may  *)
(* be in flight and their steps interleave.                                *)
(***************************************************************************)
EXTENDS Integers, Sequences, FiniteSets, TLC

VARIABLES
    folders,    \* folders_collection: set of documents [id, user_id, name]
    projects,   \* projects_collection: set of documents
    dirs,       \* the directories below DATA_DIR, as paths
    nextFid,    \* number of folder ids drawn so far (uuid4 is fresh each time)
    nextPid,    \* number of project ids drawn so far
    req,        \* the requests in flight: slot -> handler frame
    resp,       \* the outcome of the handler that returned last
    oserror,    \* whether a filesystem call has raised OSError so far
    run,        \* the run's setting, fixed from the start: how many requests
                \* run at once (cap), whether filesystem calls may raise
                \* OSError (faults), the user ids holding access tokens
                \* (tenants), how many ids uuid4 hands out (fids, pids)
    users,      \* users_collection: set of documents
    tokens,     \* the issued tokens clients hold (the server keeps none)
    clock,      \* datetime.utcnow() in seconds (now), and how often it moved
    areq,       \* the register requests in flight: slot -> handler frame
    aresp       \* the outcome of the identity or token call that returned last

auth == <<users, tokens, clock, areq, aresp>>

vars == <<folders, projects, dirs, nextFid, nextPid, req, resp, oserror, run,
          users, tokens, clock, areq, aresp>>

----------------------------------------------------------------------------
(* Bounds *)

MaxInFlight == 2
MaxFolders == 2
MaxProjects == 2
MaxNamedProjects == 3
SingleFolder == 1
GroupedFolders == 1
GroupingProjects == 1
SharedFolders == 1
SharedProjects == 1
MaxUsers == 2
MaxTokens == 2
MaxTicks == 3

Users == {"u1", "u2"}
Slots == 1..MaxInFlight
FolderIds == 1..run.fids
ProjectIds == 1..run.pids

----------------------------------------------------------------------------
(* Names.  A name is a sequence of characters. *)

Range(s) == {s[i] : i \in 1..Len(s)}

\* FolderCreateRequest.name / FolderUpdateRequest.name (min_length=1):
\* the raw names the requests of the model carry
RawNames == {<<"a">>, <<" ", "b", "/">>, <<".", ".">>, <<".", "a", " ">>}

\* c.isalnum() or c in (' ', '_', '-')
IsSafeChar(c) == c \in {"a", "b", "0", "1", " ", "_", "-"}

RECURSIVE LStrip(_)
LStrip(s) == IF s # <<>> /\ Head(s) = " " THEN LStrip(Tail(s)) ELSE s

RECURSIVE RStrip(_)
RStrip(s) ==
    IF s # <<>> /\ s[Len(s)] = " " THEN RStrip(SubSeq(s, 1, Len(s) - 1)) ELSE s

\* "".join([c for c in name if ...]).strip()
Sanitize(raw) == RStrip(LStrip(SelectSeq(raw, IsSafeChar)))

----------------------------------------------------------------------------
(* Paths.  DATA_DIR/<user_id> is <<user_id>>; joining the empty name onto   *)
(* it gives DATA_DIR/<user_id>/, the same directory.                       *)

get_user_storage_path(u) == <<u>>

get_folder_path(u, name) ==
    IF name = <<>> THEN get_user_storage_path(u)
    ELSE Append(get_user_storage_path(u), name)

IsPrefix(p, q) == Len(p) <= Len(q) /\ SubSeq(q, 1, Len(p)) = p

\* os.path.exists
exists(p) == p \in dirs

\* os.makedirs(p, exist_ok=True): p and its missing ancestors
makedirs(d, p) == d \cup {SubSeq(p, 1, n) : n \in 1..Len(p)}

\* os.rename(old, new) of a directory raises OSError when new is a proper
\* ancestor of old (a non-empty directory) or lies inside old; an empty
\* directory at new is replaced, and old moves with everything below it.
rename_fails(old, new) == old # new /\ (IsPrefix(new, old) \/ IsPrefix(old, new))
os_rename(d, old, new) ==
    {q \in d : ~IsPrefix(old, q)}
        \cup {new \o SubSeq(q, Len(old) + 1, Len(q)) : q \in {x \in d : IsPrefix(old, x)}}

\* shutil.rmtree(p): p and everything below it
rmtree(d, p) == {q \in d : ~IsPrefix(p, q)}

----------------------------------------------------------------------------
(* Store queries *)

\* the duplicate check without the user_id filter
FindFolderByNameOfAnyUser(u, name) == {f \in folders : f.name = name}

\* folders_collection.find_one({"user_id": user_id, "name": name})
FindFolderByName(u, name) == {f \in folders : f.user_id = u /\ f.name = name}

\* folders_collection.find_one({"_id": folder_id, "user_id": user_id})
\* the lookup by id without the user_id filter
FindFolderByIdOfAnyUser(u, fid) == {f \in folders : f.id = fid}

FindFolderById(u, fid) == {f \in folders : f.id = fid /\ f.user_id = u}

\* folders_collection.find_one({"_id": folder_id}) (an Optional id: <<>> or <<id>>)
\* the folder lookup without the user_id filter
FolderOfAnyUser(u, fid) == \E f \in folders : f.id = fid

FolderOwnedBy(u, fid) == FindFolderById(u, fid) # {}

\* projects_collection.find_one({"_id": project_id, "user_id": user_id})
FindProjectById(u, pid) == {p \in projects : p.id = pid /\ p.user_id = u}

----------------------------------------------------------------------------
(* Project names *)

base_name == <<"N", "e", "w", " ", "P", "r", "o", "j", "e", "c", "t">>

Digit(d) == <<"0", "1", "2", "3", "4", "5", "6", "7", "8", "9">>[d + 1]

\* str(counter)
RECURSIVE Str(_)
Str(n) == IF n < 10 THEN <<Digit(n)>> ELSE Append(Str(n \div 10), Digit(n % 10))

\* f"{base_name} {counter}"
Candidate(counter) == base_name \o <<" ">> \o Str(counter)

\* {"$regex": "^New Project.*"}
MatchesPattern(name) ==
    Len(name) >= Len(base_name) /\ SubSeq(name, 1, Len(base_name)) = base_name

\* the scan without the user_id filter
ExistingNamesOfAllUsers(u) ==
    {p.name : p \in {q \in projects : MatchesPattern(q.name)}}

\* the names of the user's projects that match the pattern
ExistingNames(u) ==
    {p.name : p \in {q \in projects : q.user_id = u /\ MatchesPattern(q.name)}}

\* while True: candidate = ...; if candidate not in existing_names: return
RECURSIVE Probe(_, _)
Probe(existing_names, counter) ==
    IF Candidate(counter) \notin existing_names THEN Candidate(counter)
    ELSE Probe(existing_names, counter + 1)

generate_project_name(u) ==
    LET existing_names == ExistingNames(u) IN
    IF base_name \notin existing_names THEN base_name
    ELSE Probe(existing_names, 1)

\* ProjectUpdateRequest.name: the names the requests of the model carry
ProjectNameInputs == {base_name, Candidate(1), base_name \o <<"s">>}

\* {"$push": {"folder_ids": folder_id}}
Push(folder_ids, fid) == Append(folder_ids, fid)

\* {"$addToSet": {"folder_ids": folder_id}}
AddToSet(folder_ids, fid) ==
    IF fid \in Range(folder_ids) THEN folder_ids ELSE Append(folder_ids, fid)

\* {"$set": update_data}
SetFields(p, set_name, name, flag) ==
    [p EXCEPT !.name = IF set_name THEN name ELSE @,
              !.is_initialized = IF flag = "none" THEN @ ELSE flag = "true"]

----------------------------------------------------------------------------
(* Handler frames *)

Idle == [op |-> "none", pc |-> "idle", user |-> "-", name |-> <<>>,
         old |-> <<>>, id |-> 0, fid |-> 0, fids |-> <<>>,
         set_name |-> FALSE, flag |-> "none"]

NoResp == [op |-> "none", user |-> "-", status |-> 0, line |-> 0, data |-> <<>>]

InFlight == {r \in Slots : req[r].pc # "idle"}

\* the handler in slot r returns (or raises HTTPException) at this source
\* line with this outcome; every 500 of these handlers is a caught OSError
Finish(r, op, u, status, line, data) ==
    /\ req' = [req EXCEPT ![r] = Idle]
    /\ resp' = [op |-> op, user |-> u, status |-> status, line |-> line,
                data |-> data]
    /\ oserror' = (oserror \/ status = 500)
    /\ UNCHANGED auth

\* the handler in slot r goes on to its next await
Goto(r, frame) ==
    /\ req' = [req EXCEPT ![r] = frame]
    /\ UNCHANGED <<resp, oserror>>
    /\ UNCHANGED auth

\* a new request takes the lowest free slot, if the run has room for it
CanStart(r) ==
    /\ req[r].pc = "idle"
    /\ \A q \in Slots : q < r => req[q].pc # "idle"
    /\ Cardinality(InFlight) < run.cap

\* uuid4 never repeats; the model stops admitting creates when the ids it
\* has are all spoken for
FolderIdsLeft ==
    nextFid + Cardinality({r \in Slots : req[r].op = "create_folder"}) < run.fids

ProjectIdsLeft ==
    nextPid + Cardinality({r \in Slots : req[r].op = "create_project"}) < run.pids

\* outcomes of one filesystem call: TRUE = it works, FALSE = OSError
FsOutcomes == IF run.faults THEN {TRUE, FALSE} ELSE {TRUE}

----------------------------------------------------------------------------
(* create_folder *)

\* lines 28-41: sanitize, reject the empty name, duplicate check
create_folder_check(r, u, raw) ==
    /\ CanStart(r)
    /\ UNCHANGED <<folders, projects, dirs, nextFid, nextPid, run>>
    /\ LET safe_name == Sanitize(raw) IN
       IF safe_name = <<>>
       THEN Finish(r, "create_folder", u, 400, 33, <<>>)
       ELSE IF FindFolderByName(u, safe_name) # {}
       THEN Finish(r, "create_folder", u, 409, 41, <<>>)
       ELSE /\ FolderIdsLeft
            /\ Goto(r, [Idle EXCEPT !.op = "create_folder", !.pc = "mkdir",
                                    !.user = u, !.name = safe_name])

\* lines 43-48: os.makedirs(full_path, exist_ok=True)
\* the directory step that swallows OSError and goes on to the insert
create_folder_mkdir_swallowing(r) ==
    /\ req[r].op = "create_folder" /\ req[r].pc = "mkdir"
    /\ UNCHANGED <<folders, projects, nextFid, nextPid, run>>
    /\ \E ok \in FsOutcomes :
        /\ dirs' = IF ok THEN makedirs(dirs, get_folder_path(req[r].user, req[r].name))
                   ELSE dirs
        /\ Goto(r, [req[r] EXCEPT !.pc = "insert"])

create_folder_mkdir(r) ==
    /\ req[r].op = "create_folder" /\ req[r].pc = "mkdir"
    /\ UNCHANGED <<folders, projects, nextFid, nextPid, run>>
    /\ \E ok \in FsOutcomes :
        IF ok
        THEN /\ dirs' = makedirs(dirs, get_folder_path(req[r].user, req[r].name))
             /\ Goto(r, [req[r] EXCEPT !.pc = "insert"])
        ELSE /\ UNCHANGED dirs
             /\ Finish(r, "create_folder", req[r].user, 500, 48, <<>>)

\* lines 50-62: insert_one(new_folder) and return it
create_folder_insert(r) ==
    /\ req[r].op = "create_folder" /\ req[r].pc = "insert"
    /\ LET new_folder == [id |-> nextFid + 1, user_id |-> req[r].user,
                          name |-> req[r].name] IN
       /\ folders' = folders \cup {new_folder}
       /\ nextFid' = nextFid + 1
       /\ Finish(r, "create_folder", req[r].user, 201, 59, <<new_folder>>)
    /\ UNCHANGED <<projects, dirs, nextPid, run>>

----------------------------------------------------------------------------
(* rename_folder *)

\* rename_folder without the early return of lines 126-128
rename_folder_find_no_shortcut(r, u, fid, raw) ==
    /\ CanStart(r)
    /\ UNCHANGED <<folders, projects, dirs, nextFid, nextPid, run>>
    /\ LET new_safe_name == Sanitize(raw)
           found == FindFolderById(u, fid) IN
       IF found = {}
       THEN Finish(r, "rename_folder", u, 404, 122, <<>>)
       ELSE Goto(r, [Idle EXCEPT !.op = "rename_folder", !.pc = "dupcheck",
                                 !.user = u, !.id = fid,
                                 !.old = (CHOOSE f \in found : TRUE).name,
                                 !.name = new_safe_name])

\* lines 116-128: sanitize, find the folder, return it if the name is the same
rename_folder_find(r, u, fid, raw) ==
    /\ CanStart(r)
    /\ UNCHANGED <<folders, projects, dirs, nextFid, nextPid, run>>
    /\ LET new_safe_name == Sanitize(raw)
           found == FindFolderById(u, fid) IN
       IF found = {}
       THEN Finish(r, "rename_folder", u, 404, 122, <<>>)
       ELSE LET folder == CHOOSE f \in found : TRUE IN
            IF folder.name = new_safe_name
            THEN Finish(r, "rename_folder", u, 200, 128, <<folder>>)
            ELSE Goto(r, [Idle EXCEPT !.op = "rename_folder", !.pc = "dupcheck",
                                      !.user = u, !.id = fid,
                                      !.old = folder.name,
                                      !.name = new_safe_name])

\* lines 130-133: is the new name taken
rename_folder_dupcheck(r) ==
    /\ req[r].op = "rename_folder" /\ req[r].pc = "dupcheck"
    /\ UNCHANGED <<folders, projects, dirs, nextFid, nextPid, run>>
    /\ IF FindFolderByName(req[r].user, req[r].name) # {}
       THEN Finish(r, "rename_folder", req[r].user, 409, 133, <<>>)
       ELSE Goto(r, [req[r] EXCEPT !.pc = "fs"])

\* lines 135-145: rename the directory, or make the new one if the old is gone
\* the filesystem step that insists on the old directory being there
rename_folder_fs_strict(r) ==
    /\ req[r].op = "rename_folder" /\ req[r].pc = "fs"
    /\ UNCHANGED <<folders, projects, nextFid, nextPid, run>>
    /\ LET old_path == get_folder_path(req[r].user, req[r].old)
           new_path == get_folder_path(req[r].user, req[r].name) IN
       \E ok \in FsOutcomes :
        IF ok /\ exists(old_path) /\ ~rename_fails(old_path, new_path)
        THEN /\ dirs' = os_rename(dirs, old_path, new_path)
             /\ Goto(r, [req[r] EXCEPT !.pc = "update"])
        ELSE /\ UNCHANGED dirs
             /\ Finish(r, "rename_folder", req[r].user, 500, 145, <<>>)

rename_folder_fs(r) ==
    /\ req[r].op = "rename_folder" /\ req[r].pc = "fs"
    /\ UNCHANGED <<folders, projects, nextFid, nextPid, run>>
    /\ LET old_path == get_folder_path(req[r].user, req[r].old)
           new_path == get_folder_path(req[r].user, req[r].name) IN
       \E ok \in FsOutcomes :
        IF ok /\ ~(exists(old_path) /\ rename_fails(old_path, new_path))
        THEN /\ dirs' = IF exists(old_path)
                        THEN os_rename(dirs, old_path, new_path)
                        ELSE makedirs(dirs, new_path)
             /\ Goto(r, [req[r] EXCEPT !.pc = "update"])
        ELSE /\ UNCHANGED dirs
             /\ Finish(r, "rename_folder", req[r].user, 500, 145, <<>>)

\* lines 147-151: update_one({"_id": folder_id}, {"$set": {"name": ...}})
rename_folder_update(r) ==
    /\ req[r].op = "rename_folder" /\ req[r].pc = "update"
    /\ folders' = {IF f.id = req[r].id THEN [f EXCEPT !.name = req[r].name] ELSE f
                   : f \in folders}
    /\ Goto(r, [req[r] EXCEPT !.pc = "refetch"])
    /\ UNCHANGED <<projects, dirs, nextFid, nextPid, run>>

\* lines 153-159: find_one({"_id": folder_id}) and return it
rename_folder_refetch(r) ==
    /\ req[r].op = "rename_folder" /\ req[r].pc = "refetch"
    /\ LET found == {f \in folders : f.id = req[r].id} IN
       Finish(r, "rename_folder", req[r].user, 200, 156,
              IF found = {} THEN <<>> ELSE <<CHOOSE f \in found : TRUE>>)
    /\ UNCHANGED <<folders, projects, dirs, nextFid, nextPid, run>>

----------------------------------------------------------------------------
(* delete_folder *)

\* lines 168-173: find the folder
delete_folder_find(r, u, fid) ==
    /\ CanStart(r)
    /\ UNCHANGED <<folders, projects, dirs, nextFid, nextPid, run>>
    /\ LET found == FindFolderById(u, fid) IN
       IF found = {}
       THEN Finish(r, "delete_folder", u, 404, 173, <<>>)
       ELSE Goto(r, [Idle EXCEPT !.op = "delete_folder", !.pc = "rmtree",
                                 !.user = u, !.id = fid,
                                 !.name = (CHOOSE f \in found : TRUE).name])

\* lines 175-182: shutil.rmtree if the directory exists
delete_folder_rmtree(r) ==
    /\ req[r].op = "delete_folder" /\ req[r].pc = "rmtree"
    /\ UNCHANGED <<folders, projects, nextFid, nextPid, run>>
    /\ LET folder_path == get_folder_path(req[r].user, req[r].name) IN
       \E ok \in FsOutcomes :
        IF ok \/ ~exists(folder_path)
        THEN /\ dirs' = IF exists(folder_path) THEN rmtree(dirs, folder_path)
                        ELSE dirs
             /\ Goto(r, [req[r] EXCEPT !.pc = "delete"])
        ELSE /\ UNCHANGED dirs
             /\ Finish(r, "delete_folder", req[r].user, 500, 182, <<>>)

\* delete_folder that also pulls the folder's id out of every project
delete_folder_delete_pulling(r) ==
    /\ req[r].op = "delete_folder" /\ req[r].pc = "delete"
    /\ folders' = {f \in folders : f.id # req[r].id}
    /\ projects' = {[p EXCEPT !.folder_ids = SelectSeq(@, LAMBDA x : x # req[r].id)]
                    : p \in projects}
    /\ Finish(r, "delete_folder", req[r].user, 200, 187, <<>>)
    /\ UNCHANGED <<dirs, nextFid, nextPid, run>>

\* lines 184-190: delete_one({"_id": folder_id})
delete_folder_delete(r) ==
    /\ req[r].op = "delete_folder" /\ req[r].pc = "delete"
    /\ folders' = {f \in folders : f.id # req[r].id}
    /\ Finish(r, "delete_folder", req[r].user, 200, 187, <<>>)
    /\ UNCHANGED <<projects, dirs, nextFid, nextPid, run>>

----------------------------------------------------------------------------
(* create_project *)

\* lines 51-54: generate_project_name, the scan of the user's names
create_project_scan(r, u, initial) ==
    /\ CanStart(r)
    /\ ProjectIdsLeft
    /\ Goto(r, [Idle EXCEPT !.op = "create_project",
                            !.pc = IF initial # <<>> THEN "folder" ELSE "insert",
                            !.user = u, !.name = generate_project_name(u),
                            !.fid = IF initial # <<>> THEN initial[1] ELSE 0])
    /\ UNCHANGED <<folders, projects, dirs, nextFid, nextPid, run>>

\* lines 56-65: the initial folder is kept only if it is the user's
create_project_folder(r) ==
    /\ req[r].op = "create_project" /\ req[r].pc = "folder"
    /\ Goto(r, [req[r] EXCEPT !.pc = "insert",
                              !.fids = IF FolderOwnedBy(req[r].user, req[r].fid)
                                       THEN <<req[r].fid>> ELSE <<>>])
    /\ UNCHANGED <<folders, projects, dirs, nextFid, nextPid, run>>

\* lines 67-79: insert_one(new_project) and return it
create_project_insert(r) ==
    /\ req[r].op = "create_project" /\ req[r].pc = "insert"
    /\ LET new_project == [id |-> nextPid + 1, user_id |-> req[r].user,
                           name |-> req[r].name, folder_ids |-> req[r].fids,
                           is_initialized |-> FALSE] IN
       /\ projects' = projects \cup {new_project}
       /\ nextPid' = nextPid + 1
       /\ Finish(r, "create_project", req[r].user, 201, 79, <<new_project>>)
    /\ UNCHANGED <<folders, dirs, nextFid, run>>

----------------------------------------------------------------------------
(* update_project *)

\* find_one_and_update({"_id": project_id, "user_id": user_id}, {"$set": ...},
\* return_document=True), lines 110-120
UpdateAndReturn(r, u, pid, set_name, name, flag) ==
    LET found == FindProjectById(u, pid) IN
    IF found = {}
    THEN /\ UNCHANGED projects
         /\ Finish(r, "update_project", u, 404, 118, <<>>)
    ELSE LET p == CHOOSE q \in found : TRUE
             result == SetFields(p, set_name, name, flag) IN
         /\ projects' = (projects \ {p}) \cup {result}
         /\ Finish(r, "update_project", u, 200, 120, <<result>>)

\* lines 89-108: the duplicate-name check when a name is given; with no name
\* the handler goes straight on to the update (or to 400 with no field)
update_project_check(r, u, pid, name, flag) ==
    /\ CanStart(r)
    /\ UNCHANGED <<folders, dirs, nextFid, nextPid, run>>
    /\ IF name # <<>>
       THEN /\ UNCHANGED projects
            /\ IF \E p \in projects :
                    p.user_id = u /\ p.name = name[1] /\ p.id # pid
               THEN Finish(r, "update_project", u, 409, 101, <<>>)
               ELSE Goto(r, [Idle EXCEPT !.op = "update_project", !.pc = "update",
                                         !.user = u, !.id = pid, !.set_name = TRUE,
                                         !.name = name[1], !.flag = flag])
       ELSE IF flag = "none"
       THEN /\ UNCHANGED projects
            /\ Finish(r, "update_project", u, 400, 108, <<>>)
       ELSE UpdateAndReturn(r, u, pid, FALSE, <<>>, flag)

update_project_write(r) ==
    /\ req[r].op = "update_project" /\ req[r].pc = "update"
    /\ UpdateAndReturn(r, req[r].user, req[r].id, req[r].set_name, req[r].name,
                       req[r].flag)
    /\ UNCHANGED <<folders, dirs, nextFid, nextPid, run>>

----------------------------------------------------------------------------
(* add_folder_to_project *)

\* lines 130-135: the project must be the user's
add_folder_find_project(r, u, pid, fid) ==
    /\ CanStart(r)
    /\ UNCHANGED <<folders, projects, dirs, nextFid, nextPid, run>>
    /\ IF FindProjectById(u, pid) = {}
       THEN Finish(r, "add_folder_to_project", u, 404, 135, <<>>)
       ELSE Goto(r, [Idle EXCEPT !.op = "add_folder_to_project", !.pc = "folder",
                                 !.user = u, !.id = pid, !.fid = fid])

\* lines 137-140: the folder must be the user's
add_folder_find_folder(r) ==
    /\ req[r].op = "add_folder_to_project" /\ req[r].pc = "folder"
    /\ UNCHANGED <<folders, projects, dirs, nextFid, nextPid, run>>
    /\ IF ~FolderOwnedBy(req[r].user, req[r].fid)
       THEN Finish(r, "add_folder_to_project", req[r].user, 404, 140, <<>>)
       ELSE Goto(r, [req[r] EXCEPT !.pc = "add"])

\* lines 142-149: find_one_and_update({"_id": project_id}, {"$addToSet": ...},
\* return_document=True); the result is returned as it is
add_folder_update(r) ==
    /\ req[r].op = "add_folder_to_project" /\ req[r].pc = "add"
    /\ LET found == {p \in projects : p.id = req[r].id} IN
       IF found = {}
       THEN /\ UNCHANGED projects
            /\ Finish(r, "add_folder_to_project", req[r].user, 200, 149, <<>>)
       ELSE LET p == CHOOSE q \in found : TRUE
                updated_project ==
                    [p EXCEPT !.folder_ids = AddToSet(@, req[r].fid)] IN
            /\ projects' = (projects \ {p}) \cup {updated_project}
            /\ Finish(r, "add_folder_to_project", req[r].user, 200, 149,
                      <<updated_project>>)
    /\ UNCHANGED <<folders, dirs, nextFid, nextPid, run>>

----------------------------------------------------------------------------
(* delete_project *)

\* lines 158-163: the project must be the user's
delete_project_find(r, u, pid) ==
    /\ CanStart(r)
    /\ UNCHANGED <<folders, projects, dirs, nextFid, nextPid, run>>
    /\ IF FindProjectById(u, pid) = {}
       THEN Finish(r, "delete_project", u, 404, 163, <<>>)
       ELSE Goto(r, [Idle EXCEPT !.op = "delete_project", !.pc = "delete",
                                 !.user = u, !.id = pid])

\* delete_project that also deletes the records of the folders it groups
delete_project_delete_cascading(r) ==
    /\ req[r].op = "delete_project" /\ req[r].pc = "delete"
    /\ projects' = {p \in projects : p.id # req[r].id}
    /\ folders' = {f \in folders :
                     \A p \in projects :
                        p.id = req[r].id => f.id \notin Range(p.folder_ids)}
    /\ Finish(r, "delete_project", req[r].user, 204, 169, <<>>)
    /\ UNCHANGED <<dirs, nextFid, nextPid, run>>

\* lines 165-169: delete_one({"_id": project_id})
delete_project_delete(r) ==
    /\ req[r].op = "delete_project" /\ req[r].pc = "delete"
    /\ projects' = {p \in projects : p.id # req[r].id}
    /\ Finish(r, "delete_project", req[r].user, 204, 169, <<>>)
    /\ UNCHANGED <<folders, dirs, nextFid, nextPid, run>>

----------------------------------------------------------------------------
(* Token service: app/core/security.py.  A token is the signed claims      *)
(* {user_id, exp}; key is the secret it was signed with, and iat records   *)
(* the instant it was issued (not a claim of the token).                   *)

AccessMinutes == 30
RefreshDays == 7

JWT_SECRET_KEY == "JWT_SECRET_KEY"
JWT_REFRESH_SECRET_KEY == "JWT_REFRESH_SECRET_KEY"

\* timedelta(minutes=30), timedelta(days=7), in seconds
AccessLifetime == AccessMinutes * 60
RefreshLifetime == RefreshDays * 24 * 60 * 60

\* jwt.encode(payload, key, algorithm="HS256")
jwt_encode(user_id, exp, key, iat) ==
    [user_id |-> user_id, exp |-> exp, key |-> key, iat |-> iat]

\* jwt.decode(token, key, algorithms=["HS256"]): <<payload>>, or <<>> for a
\* JWTError (signature made with another key, or exp < now)
jwt_decode(token, key, now) ==
    IF token.key # key \/ token.exp < now THEN <<>>
    ELSE <<[user_id |-> token.user_id, exp |-> token.exp]>>

\* the access token with the refresh token's lifetime
create_access_token_long_lived(user_id, now) ==
    jwt_encode(user_id, now + RefreshLifetime, JWT_SECRET_KEY, now)

create_access_token(user_id, now) ==
    jwt_encode(user_id, now + AccessLifetime, JWT_SECRET_KEY, now)

create_refresh_token(user_id, now) ==
    jwt_encode(user_id, now + RefreshLifetime, JWT_REFRESH_SECRET_KEY, now)

\* a token somebody else signed, carrying the claims of an issued one
Forged(token) == [token EXCEPT !.key = "attacker key"]

\* the tokens clients hold: the ones kept, and the ones just returned
Held == tokens \cup Range(aresp.tokens)

\* the tokens a client may present
Presentable == Held \cup {Forged(t) : t \in Held}

\* clients keep the tokens they are handed while they have room for them
Keep(issued) ==
    IF Cardinality(tokens \cup issued) <= MaxTokens THEN tokens \cup issued
    ELSE tokens

----------------------------------------------------------------------------
(* Passwords: passlib's CryptContext.  The stored hash is <<>> (None) for  *)
(* an account without a password.                                          *)

None == <<>>

\* pwd_context.hash(password); a password of None raises TypeError
hash_password(password) == <<"bcrypt", password[1]>>

\* the verification that takes a missing hash for a match
verify_password_unset_matches(password, password_hash) ==
    password_hash = None \/ password_hash = <<"bcrypt", password>>

\* pwd_context.verify(password, password_hash): False for a hash of None
verify_password(password, password_hash) ==
    password_hash # None /\ password_hash = <<"bcrypt", password>>

----------------------------------------------------------------------------
(* Identity handlers: app/auth/routes.py *)

NoRegistration == [pc |-> "idle", user_data |-> <<>>]

NoAuthResp == [op |-> "none", request |-> <<>>, status |-> 0, line |-> 0,
               user_id |-> 0, tokens |-> <<>>]

Registering == {r \in Slots : areq[r].pc # "idle"}

\* a new register request takes the lowest free slot, if there is room
CanRegister(r) ==
    /\ areq[r].pc = "idle"
    /\ \A q \in Slots : q < r => areq[q].pc # "idle"
    /\ Cardinality(Registering) < run.cap

\* str(uuid.uuid4()): an id no user document and no pending registration has
uuid4 == Cardinality(users) + Cardinality(Registering) + 1

\* the identity or token call made with this request returns (or raises
\* HTTPException) at this line
Reply(op, request, status, line, user_id, issued) ==
    aresp' = [op |-> op, request |-> request, status |-> status, line |-> line,
              user_id |-> user_id, tokens |-> issued]

Storage == <<folders, projects, dirs, nextFid, nextPid, req, resp, oserror, run>>

\* the existence query without the username branch of the $or
FindUserByEmailOnly(email, username) == {u \in users : u.email = email}

\* lines 20-22: find_one({"$or": [{"email": ...}, {"username": ...}]})
FindUserByEmailOrUsername(email, username) ==
    {u \in users : u.email = email \/ u.username = username}

\* lines 18-59: the existence check, then the provider branch up to the
\* insert.  google_ok is what verify_google_token says of google_token.
register_check(r, username, email, password, auth_provider, google_ok) ==
    /\ CanRegister(r)
    /\ UNCHANGED <<users, tokens, clock>>
    /\ UNCHANGED Storage
    /\ IF FindUserByEmailOrUsername(email, username) # {}
       THEN /\ Reply("register", <<username, email, auth_provider>>, 409, 25, 0, <<>>)
            /\ UNCHANGED areq
       ELSE IF auth_provider = "google" /\ ~google_ok
       THEN /\ Reply("register", <<username, email, auth_provider>>, 401, 37, 0, <<>>)
            /\ UNCHANGED areq
       ELSE IF auth_provider # "google" /\ password = <<>>
       THEN /\ Reply("register", <<username, email, auth_provider>>, 500, 47, 0, <<>>)
            /\ UNCHANGED areq
       ELSE /\ uuid4 <= MaxUsers
            /\ areq' = [areq EXCEPT ![r] =
                   [pc |-> "insert",
                    user_data |-> <<[id |-> uuid4,
                                     username |-> username,
                                     email |-> email,
                                     password_hash |->
                                         IF auth_provider = "google" THEN None
                                         ELSE hash_password(password),
                                     auth_provider |-> auth_provider]>>]]
            /\ UNCHANGED aresp

\* lines 61-81: insert_one, issue both tokens, return
register_insert(r) ==
    /\ areq[r].pc = "insert"
    /\ LET user_data == areq[r].user_data[1]
           access_token == create_access_token(user_data.id, clock.now)
           refresh_token == create_refresh_token(user_data.id, clock.now) IN
        /\ users' = users \cup {user_data}
        /\ tokens' = Keep({access_token, refresh_token})
        /\ Reply("register",
                 <<user_data.username, user_data.email, user_data.auth_provider>>,
                 201, 66, user_data.id, <<access_token, refresh_token>>)
    /\ areq' = [areq EXCEPT ![r] = NoRegistration]
    /\ UNCHANGED clock
    /\ UNCHANGED Storage

\* lines 85-103: find the user by email, verify the password, issue tokens
login_user(email, password) ==
    /\ UNCHANGED <<users, clock, areq>>
    /\ UNCHANGED Storage
    /\ LET found == {u \in users : u.email = email} IN
       IF found = {}
       THEN /\ Reply("login", <<email, password>>, 401, 91, 0, <<>>)
            /\ UNCHANGED tokens
       ELSE \E user \in found :
            IF ~verify_password(password, user.password_hash)
            THEN /\ Reply("login", <<email, password>>, 401, 91, 0, <<>>)
                 /\ UNCHANGED tokens
            ELSE LET access_token == create_access_token(user.id, clock.now)
                     refresh_token == create_refresh_token(user.id, clock.now) IN
                 /\ tokens' = Keep({access_token, refresh_token})
                 /\ Reply("login", <<email, password>>, 200, 96, user.id, <<access_token, refresh_token>>)

\* the refresh that checks the token against the access secret
refresh_with_access_secret(token) ==
    /\ UNCHANGED <<users, clock, areq>>
    /\ UNCHANGED Storage
    /\ LET payload == jwt_decode(token, JWT_SECRET_KEY, clock.now) IN
       IF payload = <<>>
       THEN /\ Reply("refresh", <<token>>, 401, 146, 0, <<>>)
            /\ UNCHANGED tokens
       ELSE LET new_access_token ==
                    create_access_token(payload[1].user_id, clock.now) IN
            /\ tokens' = Keep({new_access_token})
            /\ Reply("refresh", <<token>>, 200, 140, payload[1].user_id, <<new_access_token>>)

\* lines 122-146: decode with the refresh secret, issue a new access token
refresh_access_token(token) ==
    /\ UNCHANGED <<users, clock, areq>>
    /\ UNCHANGED Storage
    /\ LET payload == jwt_decode(token, JWT_REFRESH_SECRET_KEY, clock.now) IN
       IF payload = <<>>
       THEN /\ Reply("refresh", <<token>>, 401, 146, 0, <<>>)
            /\ UNCHANGED tokens
       ELSE LET new_access_token ==
                    create_access_token(payload[1].user_id, clock.now) IN
            /\ tokens' = Keep({new_access_token})
            /\ Reply("refresh", <<token>>, 200, 140, payload[1].user_id, <<new_access_token>>)

\* security.py lines 29-38: decode with the access secret
verify_access_token(token) ==
    /\ UNCHANGED <<users, tokens, clock, areq>>
    /\ UNCHANGED Storage
    /\ LET payload == jwt_decode(token, JWT_SECRET_KEY, clock.now) IN
       IF payload = <<>>
       THEN Reply("verify_access_token", <<token>>, 401, 35, 0, <<>>)
       ELSE Reply("verify_access_token", <<token>>, 200, 33, payload[1].user_id, <<>>)

\* time passes
Tick(seconds) ==
    /\ clock.ticks < MaxTicks
    /\ clock' = [now |-> clock.now + seconds, ticks |-> clock.ticks + 1]
    /\ UNCHANGED <<users, tokens, areq, aresp>>
    /\ UNCHANGED Storage

----------------------------------------------------------------------------
(* Specifications *)

\* an Optional request field: absent (<<>>) or given (<<value>>)
Optional(values) == {<<>>} \cup {<<v>> : v \in values}

\* ProjectCreateRequest.initial_folder_id
InitialFolderInputs == Optional(FolderIds)

\* RegisterRequest and LoginRequest fields
Usernames == {"ann", "bob"}
Emails == {"ann@x.org", "bob@x.org"}
Passwords == {"pw1", "pw2"}
Providers == {"email", "google"}

\* the accounts of the token runs
Accounts == {<<"ann", "ann@x.org">>, <<"bob", "bob@x.org">>}

\* how far the clock moves at once: a second, or to the last second before
\* a lifetime has passed
Advances == {1, AccessLifetime - 1, RefreshLifetime - 1}

NoIdentity ==
    /\ users = {}
    /\ tokens = {}
    /\ clock = [now |-> 0, ticks |-> 0]
    /\ areq = [r \in Slots |-> NoRegistration]
    /\ aresp = NoAuthResp

Empty ==
    /\ folders = {}
    /\ projects = {}
    /\ dirs = {}
    /\ nextFid = 0
    /\ nextPid = 0
    /\ resp = NoResp
    /\ oserror = FALSE
    /\ NoIdentity

Setting(cap, faults, tenants, fids, pids) ==
    /\ run = [cap |-> cap, faults |-> faults, tenants |-> tenants,
              fids |-> fids, pids |-> pids]
    /\ req = [r \in Slots |-> Idle]

\* one request at a time, two users, the folder handlers
Init == Empty /\ Setting(1, FALSE, Users, MaxFolders, 0)

Next ==
    \E r \in Slots :
        \/ \E u \in run.tenants, raw \in RawNames : create_folder_check(r, u, raw)
        \/ create_folder_mkdir(r)
        \/ create_folder_insert(r)
        \/ \E u \in run.tenants, fid \in FolderIds, raw \in RawNames :
               rename_folder_find(r, u, fid, raw)
        \/ rename_folder_dupcheck(r)
        \/ rename_folder_fs(r)
        \/ rename_folder_update(r)
        \/ rename_folder_refetch(r)
        \/ \E u \in run.tenants, fid \in FolderIds : delete_folder_find(r, u, fid)
        \/ delete_folder_rmtree(r)
        \/ delete_folder_delete(r)

Spec == Init /\ [][Next]_vars

\* requests of one user racing on the folders
InitFolderRace == Empty /\ Setting(MaxInFlight, FALSE, {"u1"}, MaxFolders, 0)

SpecFolderRace == InitFolderRace /\ [][Next]_vars

\* requests of one user racing on one folder
InitOneFolderRace == Empty /\ Setting(MaxInFlight, FALSE, {"u1"}, SingleFolder, 0)

SpecOneFolderRace == InitOneFolderRace /\ [][Next]_vars

\* the folder handlers, one request at a time, with filesystem calls that
\* may raise OSError
InitFaults == Empty /\ Setting(1, TRUE, {"u1"}, MaxFolders, 0)

SpecFaults == InitFaults /\ [][Next]_vars

\* the folder handlers, one request at a time, from the state two racing
\* creates of "a" and the delete of the second record leave behind: the
\* first record is there and its directory is not
InitDrift ==
    /\ folders = {[id |-> 1, user_id |-> "u1", name |-> <<"a">>]}
    /\ projects = {}
    /\ dirs = {get_user_storage_path("u1")}
    /\ nextFid = 2
    /\ nextPid = 0
    /\ resp = [op |-> "delete_folder", user |-> "u1", status |-> 200,
               line |-> 187, data |-> <<>>]
    /\ oserror = FALSE
    /\ NoIdentity
    /\ Setting(1, FALSE, {"u1"}, MaxFolders + 1, 0)

SpecDrift == InitDrift /\ [][Next]_vars

\* requests of one user racing to group folders into projects
InitMembership ==
    Empty /\ Setting(MaxInFlight, FALSE, {"u1"}, MaxFolders, MaxProjects)

NextMembership ==
    \E r \in Slots :
        \/ \E u \in run.tenants, raw \in RawNames : create_folder_check(r, u, raw)
        \/ create_folder_mkdir(r)
        \/ create_folder_insert(r)
        \/ \E u \in run.tenants, initial \in InitialFolderInputs :
               create_project_scan(r, u, initial)
        \/ create_project_folder(r)
        \/ create_project_insert(r)
        \/ \E u \in run.tenants, pid \in ProjectIds, fid \in FolderIds :
               add_folder_find_project(r, u, pid, fid)
        \/ add_folder_find_folder(r)
        \/ add_folder_update(r)

SpecMembership == InitMembership /\ [][NextMembership]_vars

\* requests of one user racing on project names
InitProjectRace ==
    Empty /\ Setting(MaxInFlight, FALSE, {"u1"}, 0, MaxProjects)

NextProjectNames ==
    \E r \in Slots :
        \/ \E u \in run.tenants : create_project_scan(r, u, <<>>)
        \/ create_project_insert(r)
        \/ \E u \in run.tenants, pid \in ProjectIds,
              name \in Optional(ProjectNameInputs), flag \in {"none"} :
               update_project_check(r, u, pid, name, flag)
        \/ update_project_write(r)
        \/ \E u \in run.tenants, pid \in ProjectIds : delete_project_find(r, u, pid)
        \/ delete_project_delete(r)

SpecProjectRace == InitProjectRace /\ [][NextProjectNames]_vars

\* one request at a time, two users, project names
InitNaming == Empty /\ Setting(1, FALSE, Users, 0, MaxNamedProjects)

SpecNaming == InitNaming /\ [][NextProjectNames]_vars

\* one request at a time, folders and the projects that group them
InitGrouping ==
    Empty /\ Setting(1, FALSE, {"u1"}, GroupedFolders, GroupingProjects)

NextGrouping ==
    \E r \in Slots :
        \/ \E u \in run.tenants, raw \in RawNames : create_folder_check(r, u, raw)
        \/ create_folder_mkdir(r)
        \/ create_folder_insert(r)
        \/ \E u \in run.tenants, fid \in FolderIds : delete_folder_find(r, u, fid)
        \/ delete_folder_rmtree(r)
        \/ delete_folder_delete(r)
        \/ \E u \in run.tenants, initial \in InitialFolderInputs :
               create_project_scan(r, u, initial)
        \/ create_project_folder(r)
        \/ create_project_insert(r)
        \/ \E u \in run.tenants, pid \in ProjectIds,
              name \in Optional({<<"X">>}), flag \in {"none", "true"} :
               update_project_check(r, u, pid, name, flag)
        \/ update_project_write(r)
        \/ \E u \in run.tenants, pid \in ProjectIds, fid \in FolderIds :
               add_folder_find_project(r, u, pid, fid)
        \/ add_folder_find_folder(r)
        \/ add_folder_update(r)
        \/ \E u \in run.tenants, pid \in ProjectIds : delete_project_find(r, u, pid)
        \/ delete_project_delete(r)

SpecGrouping == InitGrouping /\ [][NextGrouping]_vars

\* the same handlers, one request at a time, for two users
InitSharing ==
    Empty /\ Setting(1, FALSE, Users, GroupedFolders, GroupingProjects)

NextSharing ==
    \E r \in Slots :
        \/ \E u \in run.tenants : create_folder_check(r, u, <<"a">>)
        \/ create_folder_mkdir(r)
        \/ create_folder_insert(r)
        \/ \E u \in run.tenants, fid \in FolderIds : delete_folder_find(r, u, fid)
        \/ delete_folder_rmtree(r)
        \/ delete_folder_delete(r)
        \/ \E u \in run.tenants : create_project_scan(r, u, <<>>)
        \/ create_project_insert(r)
        \/ \E u \in run.tenants, pid \in ProjectIds, fid \in FolderIds :
               add_folder_find_project(r, u, pid, fid)
        \/ add_folder_find_folder(r)
        \/ add_folder_update(r)
        \/ \E u \in run.tenants, pid \in ProjectIds : delete_project_find(r, u, pid)
        \/ delete_project_delete(r)

SpecSharing == InitSharing /\ [][NextSharing]_vars

\* requests of two users racing to group folders into projects and to
\* delete the projects
InitRegrouping ==
    Empty /\ Setting(MaxInFlight, FALSE, Users, GroupedFolders, GroupingProjects)

NextRegrouping ==
    \E r \in Slots :
        \/ \E u \in run.tenants : create_folder_check(r, u, <<"a">>)
        \/ create_folder_mkdir(r)
        \/ create_folder_insert(r)
        \/ \E u \in run.tenants : create_project_scan(r, u, <<>>)
        \/ create_project_insert(r)
        \/ \E u \in run.tenants, pid \in ProjectIds, fid \in FolderIds :
               add_folder_find_project(r, u, pid, fid)
        \/ add_folder_find_folder(r)
        \/ add_folder_update(r)
        \/ \E u \in run.tenants, pid \in ProjectIds : delete_project_find(r, u, pid)
        \/ delete_project_delete(r)

SpecRegrouping == InitRegrouping /\ [][NextRegrouping]_vars

\* every folder and project handler, requests of two users racing
InitIsolation ==
    Empty /\ Setting(MaxInFlight, FALSE, Users, SharedFolders, SharedProjects)

NextIsolation ==
    \E r \in Slots :
        \/ \E u \in run.tenants, raw \in {<<"a">>, <<".", ".">>} :
               create_folder_check(r, u, raw)
        \/ create_folder_mkdir(r)
        \/ create_folder_insert(r)
        \/ \E u \in run.tenants, fid \in FolderIds, raw \in {<<"a">>, <<".", ".">>} :
               rename_folder_find(r, u, fid, raw)
        \/ rename_folder_dupcheck(r)
        \/ rename_folder_fs(r)
        \/ rename_folder_update(r)
        \/ rename_folder_refetch(r)
        \/ \E u \in run.tenants, fid \in FolderIds : delete_folder_find(r, u, fid)
        \/ delete_folder_rmtree(r)
        \/ delete_folder_delete(r)
        \/ \E u \in run.tenants, initial \in InitialFolderInputs :
               create_project_scan(r, u, initial)
        \/ create_project_folder(r)
        \/ create_project_insert(r)
        \/ \E u \in run.tenants, pid \in ProjectIds,
              name \in Optional({base_name}), flag \in {"none", "true"} :
               update_project_check(r, u, pid, name, flag)
        \/ update_project_write(r)
        \/ \E u \in run.tenants, pid \in ProjectIds, fid \in FolderIds :
               add_folder_find_project(r, u, pid, fid)
        \/ add_folder_find_folder(r)
        \/ add_folder_update(r)
        \/ \E u \in run.tenants, pid \in ProjectIds : delete_project_find(r, u, pid)
        \/ delete_project_delete(r)

SpecIsolation == InitIsolation /\ [][NextIsolation]_vars

\* the identity handlers, one request at a time
InitIdentity == Empty /\ Setting(1, FALSE, {}, 0, 0)

NextIdentity ==
    \/ \E r \in Slots :
        \/ \E username \in Usernames, email \in Emails,
              password \in Optional(Passwords), auth_provider \in Providers,
              google_ok \in BOOLEAN :
               register_check(r, username, email, password, auth_provider, google_ok)
        \/ register_insert(r)
    \/ \E email \in Emails, password \in Passwords : login_user(email, password)

SpecIdentity == InitIdentity /\ [][NextIdentity]_vars

\* register requests racing
InitRegisterRace == Empty /\ Setting(MaxInFlight, FALSE, {}, 0, 0)

NextRegister ==
    \E r \in Slots :
        \/ \E username \in Usernames, email \in Emails,
              password \in Optional(Passwords), auth_provider \in Providers,
              google_ok \in BOOLEAN :
               register_check(r, username, email, password, auth_provider, google_ok)
        \/ register_insert(r)

SpecRegisterRace == InitRegisterRace /\ [][NextRegister]_vars

\* tokens issued, presented and ageing
InitTokens == Empty /\ Setting(1, FALSE, {}, 0, 0)

NextTokens ==
    \/ \E r \in Slots :
        \/ \E account \in Accounts :
               register_check(r, account[1], account[2], <<"pw1">>, "email", FALSE)
        \/ register_insert(r)
    \/ \E email \in Emails : login_user(email, "pw1")
    \/ \E token \in Presentable : refresh_access_token(token)
    \/ \E token \in Presentable : verify_access_token(token)
    \/ \E seconds \in Advances : Tick(seconds)

SpecTokens == InitTokens /\ [][NextTokens]_vars

----------------------------------------------------------------------------
(* Folder records and directories *)

Quiescent == InFlight = {}

HasDirectory(f) == get_folder_path(f.user_id, f.name) \in dirs

HasRecord(p) == \E f \in folders : f.user_id = p[1] /\ f.name = p[2]

\* C1: whenever no folder operation is in flight and no filesystem call has
\* failed, every folder record (user_id, name) has its directory
\* DATA_DIR/user_id/name and every such directory has its folder record.
C1_RecordsMatchDirectories ==
    (Quiescent /\ ~oserror) =>
        /\ \A f \in folders : HasDirectory(f)
        /\ \A p \in dirs : Len(p) = 2 => HasRecord(p)

\* C2: no two folder records of one user have the same name.
C2_FolderNamesUnique ==
    \A f, g \in folders :
        (f.user_id = g.user_id /\ f.name = g.name) => f.id = g.id

\* C4: a name whose sanitized form is empty never gets past the entry of
\* create_folder or rename_folder: no frame of either handler carries the
\* empty name on towards its filesystem step, no handler is about to make
\* a filesystem call on the per-user root DATA_DIR/user_id/, and no folder
\* record has the empty name.
C4_EmptyNameRejected ==
    /\ \A r \in Slots :
          req[r].op \in {"create_folder", "rename_folder"} => req[r].name # <<>>
    /\ \A r \in Slots :
          req[r].pc \in {"mkdir", "fs", "rmtree"} =>
              get_folder_path(req[r].user, req[r].name)
                  # get_user_storage_path(req[r].user)
    /\ \A f \in folders : f.name # <<>>

\* C3: with one create_folder at a time, a create whose sanitized name is
\* the name of a folder record of the caller is answered 409 and changes
\* nothing; a create whose (non-empty) sanitized name no record of the
\* caller has, whoever else has it, goes on to make the directory and
\* insert exactly one record, owned by the caller, and is answered 201.
C3_CreateConflict ==
    [][/\ \A r \in Slots, u \in Users, raw \in RawNames :
            (create_folder_check(r, u, raw) /\ Sanitize(raw) # <<>>) =>
                IF \E f \in folders : f.user_id = u /\ f.name = Sanitize(raw)
                THEN /\ resp'.op = "create_folder" /\ resp'.status = 409
                     /\ folders' = folders /\ dirs' = dirs /\ req' = req
                ELSE /\ req'[r].op = "create_folder" /\ req'[r].pc = "mkdir"
                     /\ req'[r].user = u /\ req'[r].name = Sanitize(raw)
       /\ \A r \in Slots :
            create_folder_mkdir(r) => req'[r] = [req[r] EXCEPT !.pc = "insert"]
       /\ \A r \in Slots :
            create_folder_insert(r) =>
                /\ Cardinality(folders') = Cardinality(folders) + 1
                /\ \E f \in folders' :
                     /\ folders' = folders \cup {f}
                     /\ f.user_id = req[r].user /\ f.name = req[r].name
                     /\ resp'.status = 201 /\ resp'.data = <<f>>
      ]_vars

\* a create was answered 409 while two users hold folders of one name
C3_ConflictBesideSharedName ==
    /\ resp.op = "create_folder" /\ resp.status = 409
    /\ \E f, g \in folders : f.user_id # g.user_id /\ f.name = g.name

\* C5: rename_folder of a folder of the caller to a raw name whose
\* sanitized form is the folder's current name returns 200 with the current
\* record at once: no record and no directory changes and the handler takes
\* no further step (no duplicate check, filesystem call or update).
C5_RenameToSameName ==
    [][\A r \in Slots, f \in folders, raw \in RawNames :
            (/\ req[r].pc = "idle"
             /\ f.name = Sanitize(raw)
             /\ f.user_id \in run.tenants
             /\ rename_folder_find(r, f.user_id, f.id, raw)) =>
                /\ folders' = folders /\ dirs' = dirs /\ req' = req
                /\ resp'.op = "rename_folder" /\ resp'.status = 200
                /\ resp'.data = <<f>>
      ]_vars

\* a rename returned from the early return of line 128 with a record that
\* is in the store and has its directory
C5_ReturnedCurrentRecord ==
    /\ resp.op = "rename_folder" /\ resp.line = 128 /\ resp.status = 200
    /\ resp.data # <<>> /\ resp.data[1] \in folders
    /\ HasDirectory(resp.data[1])

----------------------------------------------------------------------------
(* Folders and projects *)

ProjectOps ==
    {"create_project", "update_project", "add_folder_to_project", "delete_project"}

\* this step is a step of a handler among ops: a frame of it moves, or it
\* returns straight from its first await
StepOf(ops) ==
    \/ \E r \in Slots :
          req'[r] # req[r] /\ (req[r].op \in ops \/ req'[r].op \in ops)
    \/ req' = req /\ resp' # resp /\ resp'.op \in ops

Dangling(p) == \E i \in 1..Len(p.folder_ids) : \A f \in folders : f.id # p.folder_ids[i]

\* C6: no step of delete_folder changes the projects collection; when a
\* delete_folder returns 200 (one request at a time) the record and its
\* directory are gone and the projects still list the id; delete_project of
\* an owned project goes through whatever its folder_ids hold, dangling
\* ids included.
C6_DeleteFolderKeepsProjects ==
    [][/\ StepOf({"delete_folder"}) => projects' = projects
       /\ \A r \in Slots :
            delete_folder_delete(r) =>
                /\ \A f \in folders' : f.id # req[r].id
                /\ get_folder_path(req[r].user, req[r].name) \notin dirs'
                /\ resp'.status = 200
                /\ \A p \in projects :
                     req[r].id \in Range(p.folder_ids) =>
                        (p \in projects' /\ Dangling(p)')
       /\ \A r \in Slots, p \in projects :
            (/\ req[r].pc = "idle" /\ p.user_id \in run.tenants
             /\ delete_project_find(r, p.user_id, p.id)) =>
                (req'[r].op = "delete_project" /\ req'[r].pc = "delete")
       /\ \A r \in Slots :
            delete_project_delete(r) =>
                (resp'.status = 204 /\ \A p \in projects' : p.id # req[r].id)
      ]_vars

\* delete_folder has returned 200 and a project lists an id with no record
C6_DanglingAfterDelete ==
    /\ resp.op = "delete_folder" /\ resp.status = 200
    /\ \E p \in projects : Dangling(p)

\* C7: no step of create_project, update_project, add_folder_to_project or
\* delete_project changes a folder record or a directory, and the final
\* step of delete_project removes exactly the one project record.
C7_ProjectOpsKeepFolders ==
    [][/\ StepOf(ProjectOps) => (folders' = folders /\ dirs' = dirs)
       /\ \A r \in Slots :
            delete_project_delete(r) =>
                /\ projects' = {p \in projects : p.id # req[r].id}
                /\ Cardinality(projects \ projects') <= 1
                /\ folders' = folders /\ dirs' = dirs
      ]_vars

\* delete_project has found its project, which groups a folder that has a
\* record and a directory, and its delete_one is next
C7_DeletingGroupOfLiveFolder ==
    \E r \in Slots :
        /\ req[r].op = "delete_project" /\ req[r].pc = "delete"
        /\ \E p \in projects, f \in folders :
              /\ p.id = req[r].id
              /\ f.id \in Range(p.folder_ids)
              /\ HasDirectory(f)

----------------------------------------------------------------------------
(* Project names *)

NamesOf(u) == {p.name : p \in {q \in projects : q.user_id = u}}

\* "New Project" if the user has no project of that name, else "New Project k"
\* for the least k >= 1 that the user has no project named after
LeastFreeDefaultName(u) ==
    IF base_name \notin NamesOf(u) THEN base_name
    ELSE Candidate(CHOOSE k \in 1..(Cardinality(NamesOf(u)) + 1) :
                      /\ Candidate(k) \notin NamesOf(u)
                      /\ \A j \in 1..(k - 1) : Candidate(j) \in NamesOf(u))

\* C8: with one create_project at a time the new project is named
\* "New Project" if the caller has no project of that exact name, else
\* "New Project k" for the least k >= 1 free among the caller's names;
\* other users' projects and the caller's other names do not count.
C8_DefaultName ==
    [][\A r \in Slots :
         /\ (req[r].pc = "idle" /\ req'[r].op = "create_project") =>
                req'[r].name = LeastFreeDefaultName(req'[r].user)
         /\ create_project_insert(r) =>
                \E p \in projects' \ projects :
                    /\ p.user_id = req[r].user
                    /\ p.name = LeastFreeDefaultName(req[r].user)
                    /\ resp'.data = <<p>>
      ]_vars

\* a create returned a project named "New Project 2"
C8_SecondCandidate ==
    /\ resp.op = "create_project" /\ resp.status = 201
    /\ resp.data[1].name = Candidate(2)

\* C9: no two project records of one user have the same name.
C9_ProjectNamesUnique ==
    \A p, q \in projects :
        (p.user_id = q.user_id /\ p.name = q.name) => p.id = q.id

----------------------------------------------------------------------------
(* Membership *)

NoDuplicates(s) == \A i, j \in 1..Len(s) : s[i] = s[j] => i = j

\* C10: no project's folder_ids holds an id twice, whatever the
\* interleaving of create_project and add_folder_to_project; and the final
\* step of add_folder_to_project for an id the project already lists
\* returns 200 with the project and leaves the projects as they were.
C10_MembershipIsASet ==
    /\ [](\A p \in projects : NoDuplicates(p.folder_ids))
    /\ [][\A r \in Slots, p \in projects :
            (/\ add_folder_update(r)
             /\ p.id = req[r].id /\ req[r].fid \in Range(p.folder_ids)) =>
                /\ projects' = projects
                /\ resp'.status = 200 /\ resp'.data = <<p>>
         ]_vars

\* one add_folder_to_project has returned the project with the id in it
\* and another, for the same id, is at its final update
C10_ReAddPending ==
    /\ resp.op = "add_folder_to_project" /\ resp.status = 200
    /\ \E r \in Slots, p \in projects :
          /\ req[r].op = "add_folder_to_project" /\ req[r].pc = "add"
          /\ p.id = req[r].id /\ req[r].fid \in Range(p.folder_ids)
          /\ resp.data = <<p>>

----------------------------------------------------------------------------
(* Identity and tokens *)

\* C11: with register calls handled one at a time, a register whose email
\* is the email of a persisted user, or whose username is the username of a
\* persisted user (whichever field collides, for either auth_provider),
\* fails with 409, inserts no user record and issues no tokens.
C11_RegisterConflict ==
    [][\A r \in Slots, username \in Usernames, email \in Emails,
          password \in Optional(Passwords), auth_provider \in Providers,
          google_ok \in BOOLEAN :
          (/\ \E u \in users : u.email = email \/ u.username = username
           /\ register_check(r, username, email, password, auth_provider, google_ok))
          => /\ aresp'.op = "register" /\ aresp'.status = 409
             /\ aresp'.tokens = <<>>
             /\ users' = users /\ tokens' = tokens
             /\ areq'[r].pc = "idle"]_vars

\* a register that collided on the username alone with a google account
\* was turned down
C11_UsernameAloneCollided ==
    /\ aresp.op = "register" /\ aresp.status = 409
    /\ \E u \in users :
          /\ u.username = aresp.request[1] /\ u.email # aresp.request[2]
          /\ u.auth_provider = "google"
    /\ \A u \in users : u.email # aresp.request[2]

\* C12: usernames and emails are globally unique in every reachable state,
\* whatever the interleaving of concurrent register requests.
C12_UsersUnique ==
    \A u, v \in users :
        (u.username = v.username \/ u.email = v.email) => u = v

\* C13: an access token issued for user u at time t is accepted by
\* verify_access_token, with user_id = u, at every time strictly before
\* t + 30 minutes and rejected with 401 at every time after t + 30 minutes;
\* a token not signed with the access secret is rejected at every time.
C13_AccessTokenLifetime ==
    [][\A token \in Presentable :
          (/\ aresp'.op = "verify_access_token" /\ aresp'.request = <<token>>
           /\ verify_access_token(token)) =>
            /\ (token \in Held /\ token.key = JWT_SECRET_KEY
                     /\ clock.now < token.iat + 30 * 60)
                  => aresp'.status = 200 /\ aresp'.user_id = token.user_id
            /\ (token \in Held /\ token.key = JWT_SECRET_KEY
                     /\ clock.now > token.iat + 30 * 60)
                  => aresp'.status = 401
            /\ token.key # JWT_SECRET_KEY => aresp'.status = 401]_vars

\* an access token was turned down in the second after its thirty minutes
C13_RejectedJustAfterExpiry ==
    /\ aresp.op = "verify_access_token" /\ aresp.status = 401
    /\ aresp.request[1] \in tokens
    /\ aresp.request[1].key = JWT_SECRET_KEY
    /\ clock.now = aresp.request[1].iat + 30 * 60 + 1

\* C14: refresh tokens are reusable and never consumed: every refresh made
\* with a refresh token before its issue time + 7 days succeeds, however
\* many refresh, login and register calls came before it, and returns an
\* access token for the same user that verifies at that moment; the call
\* leaves every refresh token that was valid still valid; every refresh
\* after issue time + 7 days fails with 401.
C14_RefreshReusable ==
    [][\A token \in Presentable :
          (/\ token \in Held /\ token.key = JWT_REFRESH_SECRET_KEY
           /\ aresp'.op = "refresh" /\ aresp'.request = <<token>>
           /\ refresh_access_token(token))
          => /\ clock.now < token.iat + 7 * 24 * 60 * 60
                  => /\ aresp'.status = 200
                     /\ aresp'.user_id = token.user_id
                     /\ aresp'.tokens[1].user_id = token.user_id
                     /\ jwt_decode(aresp'.tokens[1], JWT_SECRET_KEY, clock'.now) # <<>>
                     /\ \A other \in Held :
                          jwt_decode(other, JWT_REFRESH_SECRET_KEY, clock.now) # <<>>
                              => jwt_decode(other, JWT_REFRESH_SECRET_KEY, clock'.now) # <<>>
             /\ clock.now > token.iat + 7 * 24 * 60 * 60
                  => aresp'.status = 401 /\ aresp'.tokens = <<>>]_vars

\* in the last second of its seven days, long after the access token it
\* came with has expired, a refresh token of the second user brought back a
\* fresh access token
C14_UsedInLastSecond ==
    /\ aresp.op = "refresh" /\ aresp.status = 200
    /\ aresp.request[1].key = JWT_REFRESH_SECRET_KEY
    /\ aresp.request[1].user_id = 2
    /\ clock.now = aresp.request[1].iat + 7 * 24 * 60 * 60 - 1
    /\ aresp.tokens[1].iat = clock.now

\* C15: login for an account whose password_hash is absent (registered
\* with auth_provider "google") fails with 401, the same invalid-credentials
\* outcome as a missing user or a wrong password, for every supplied
\* password; it never succeeds, never ends in an unhandled error and issues
\* no tokens.
C15_GoogleAccountLogin ==
    [][\A email \in Emails, password \in Passwords :
          (/\ \E u \in users : u.email = email /\ u.password_hash = None
           /\ aresp'.op = "login" /\ aresp'.request = <<email, password>>
           /\ login_user(email, password))
          => /\ aresp'.status = 401 /\ aresp'.line = 91
             /\ aresp'.tokens = <<>>
             /\ tokens' = tokens]_vars

\* a login to a google account was turned down
C15_GoogleLoginTurnedDown ==
    /\ aresp.op = "login" /\ aresp.status = 401
    /\ \E u \in users :
          /\ u.email = aresp.request[1]
          /\ u.auth_provider = "google" /\ u.password_hash = None

----------------------------------------------------------------------------
(* Missing and foreign resources *)

\* C16: update_project called with at least one of name / is_initialized on
\* a project_id that does not exist or is not the caller's fails with 404
\* and writes nothing, whatever the name is (also a name another project of
\* the caller holds); when the project exists and is the caller's, only the
\* supplied fields are written and the other field keeps its value.
C16_UpdateMissingProject ==
    [][\A r \in Slots :
          /\ \A u \in run.tenants, pid \in ProjectIds,
                name \in Optional(ProjectNameInputs),
                flag \in {"none", "true", "false"} :
                (/\ req[r].pc = "idle"
                 /\ FindProjectById(u, pid) = {}
                 /\ name # <<>> \/ flag # "none"
                 /\ update_project_check(r, u, pid, name, flag))
                => /\ projects' = projects
                   /\ req'[r].pc # "idle" \/ resp'.status = 404
          /\ (/\ req[r].op = "update_project" /\ req[r].pc = "update"
              /\ update_project_write(r))
             => LET found == FindProjectById(req[r].user, req[r].id) IN
                IF found = {}
                THEN projects' = projects /\ resp'.status = 404
                ELSE \E p \in found :
                       /\ resp'.status = 200
                       /\ projects' = (projects \ {p}) \cup
                            {[p EXCEPT !.name = IF req[r].set_name
                                               THEN req[r].name ELSE @,
                                       !.is_initialized =
                                           IF req[r].flag = "none" THEN @
                                           ELSE req[r].flag = "true"]}]_vars

\* C17: add_folder_to_project fails with 404 and leaves every project
\* record unchanged whenever the project is absent or not the caller's, or
\* the folder id does not resolve to a folder record of the caller at the
\* time of the call (also the id of a folder deleted earlier); it succeeds
\* only when both resolve.
C17_AddFolderNotFound ==
    [][\A r \in Slots :
          /\ \A u \in run.tenants, pid \in ProjectIds, fid \in FolderIds :
                (/\ req[r].pc = "idle"
                 /\ add_folder_find_project(r, u, pid, fid))
                => /\ projects' = projects
                   /\ (\A p \in projects : ~(p.id = pid /\ p.user_id = u))
                        => req'[r].pc = "idle" /\ resp'.status = 404
                   /\ req'[r].pc = "idle" => resp'.status = 404
          /\ (/\ req[r].op = "add_folder_to_project"
              /\ req'[r] # req[r])
             => LET resolves ==
                      /\ \E p \in projects :
                            p.id = req[r].id /\ p.user_id = req[r].user
                      /\ \E f \in folders :
                            f.id = req[r].fid /\ f.user_id = req[r].user IN
                IF resolves
                THEN req'[r].pc = "idle" => resp'.status = 200
                ELSE /\ projects' = projects
                     /\ req'[r].pc = "idle" /\ resp'.status = 404]_vars

\* adding a folder that had been deleted to a project was turned down
C17_DeletedFolderTurnedDown ==
    /\ resp.op = "add_folder_to_project" /\ resp.status = 404 /\ resp.line = 140
    /\ nextFid = run.fids /\ folders = {}
    /\ \E p \in projects : p.user_id = resp.user

----------------------------------------------------------------------------
(* Filesystem failures *)

\* C18: a filesystem failure gates the store write: when the directory
\* step of create_folder (makedirs), rename_folder (rename or makedirs) or
\* delete_folder (rmtree) raises OSError the operation returns 500 and the
\* folders collection is as before the call (no record inserted, name not
\* changed, record not removed); the handler goes on to its store write
\* only when the directory step has done its work.
C18_FailureGatesWrite ==
    [][\A r \in Slots :
          /\ (req[r].pc = "mkdir" /\ req'[r] # req[r])
             => /\ folders' = folders
                /\ \/ /\ req'[r].pc = "insert"
                      /\ get_folder_path(req[r].user, req[r].name) \in dirs'
                   \/ /\ req'[r].pc = "idle" /\ resp'.status = 500
                      /\ \A f \in folders' :
                            ~(f.user_id = req[r].user /\ f.name = req[r].name)
          /\ (req[r].pc = "fs" /\ req'[r] # req[r])
             => /\ folders' = folders
                /\ \/ /\ req'[r].pc = "update"
                      /\ get_folder_path(req[r].user, req[r].name) \in dirs'
                   \/ /\ req'[r].pc = "idle" /\ resp'.status = 500
                      /\ \E f \in folders' :
                            f.id = req[r].id /\ f.name = req[r].old
          /\ (req[r].pc = "rmtree" /\ req'[r] # req[r])
             => /\ folders' = folders
                /\ \/ /\ req'[r].pc = "delete"
                      /\ get_folder_path(req[r].user, req[r].name) \notin dirs'
                   \/ /\ req'[r].pc = "idle" /\ resp'.status = 500
                      /\ \E f \in folders' : f.id = req[r].id
          /\ (req'[r] # req[r] /\ req'[r].pc = "idle" /\ resp'.status = 500)
             => folders' = folders /\ req[r].pc \in {"mkdir", "fs", "rmtree"}]_vars

\* a delete_folder whose rmtree failed returned 500 and the record is
\* still there, with its directory
C18_DeleteFailedRecordKept ==
    /\ resp.op = "delete_folder" /\ resp.status = 500
    /\ InFlight = {}
    /\ folders # {}
    /\ \A f \in folders : HasDirectory(f)

----------------------------------------------------------------------------
(* Isolation between users *)

\* this step is taken by a handler running for user a
ActsFor(a) ==
    \/ \E r \in Slots :
          /\ req'[r] # req[r]
          /\ IF req[r].pc # "idle" THEN req[r].user = a ELSE req'[r].user = a
    \/ req' = req /\ resp' # resp /\ resp'.user = a

OwnedFolders(b) == {f \in folders : f.user_id = b}
OwnedProjects(b) == {p \in projects : p.user_id = b}
OwnedDirs(b) == {p \in dirs : p[1] = b}

\* the outcome of a call of op by user a that names an id that resolves to
\* nothing of a's: 404 from the handler's not-found line, with no data
NotFoundFor(op, a, line) ==
    [op |-> op, user |-> a, status |-> 404, line |-> line, data |-> <<>>]

----------------------------------------------------------------------------
(* Self-healing *)

\* C20: rename_folder of an owned folder whose directory does not exist,
\* to a new sanitized name that is non-empty, different and unused,
\* succeeds: it creates the directory of the new name and updates the
\* record, so record and directory agree afterwards; delete_folder of an
\* owned folder whose directory does not exist succeeds and removes the
\* record.
C20_SelfHealing ==
    [][\A r \in Slots :
          /\ \A f \in folders, raw \in RawNames :
                (/\ req[r].pc = "idle"
                 /\ ~HasDirectory(f)
                 /\ Sanitize(raw) # <<>> /\ Sanitize(raw) # f.name
                 /\ \A g \in folders :
                       ~(g.user_id = f.user_id /\ g.name = Sanitize(raw))
                 /\ rename_folder_find(r, f.user_id, f.id, raw))
                => req'[r].pc = "dupcheck"
          /\ \A f \in folders :
                (/\ req[r].pc = "idle"
                 /\ ~HasDirectory(f)
                 /\ delete_folder_find(r, f.user_id, f.id))
                => req'[r].pc = "rmtree"
          /\ (/\ req[r].op = "rename_folder" /\ req'[r] # req[r]
              /\ req[r].name # <<>>
              /\ get_folder_path(req[r].user, req[r].old) \notin dirs)
             => LET new_path == get_folder_path(req[r].user, req[r].name) IN
                /\ (/\ req[r].pc = "dupcheck"
                    /\ \A g \in folders :
                          ~(g.user_id = req[r].user /\ g.name = req[r].name))
                     => req'[r].pc = "fs"
                /\ req[r].pc = "fs" => req'[r].pc = "update" /\ new_path \in dirs'
                /\ req[r].pc = "update"
                     => /\ req'[r].pc = "refetch"
                        /\ \E f \in folders' :
                              f.id = req[r].id /\ f.name = req[r].name
                /\ req[r].pc = "refetch"
                     => /\ req'[r].pc = "idle" /\ resp'.status = 200
                        /\ Len(resp'.data) = 1
                        /\ resp'.data[1] \in folders'
                        /\ resp'.data[1].id = req[r].id
                        /\ resp'.data[1].name = req[r].name
                        /\ new_path \in dirs'
          /\ (/\ req[r].op = "delete_folder" /\ req'[r] # req[r]
              /\ get_folder_path(req[r].user, req[r].name) \notin dirs)
             => /\ req[r].pc = "rmtree" => req'[r].pc = "delete" /\ dirs' = dirs
                /\ req[r].pc = "delete"
                     => /\ req'[r].pc = "idle" /\ resp'.status = 200
                        /\ \A f \in folders' : f.id # req[r].id]_vars

\* the record whose directory was missing has been renamed to "b" and the
\* directory "b" is there, though no folder was created in between
C20_DirectoryRecreated ==
    /\ resp.op = "rename_folder" /\ resp.status = 200 /\ resp.line = 156
    /\ nextFid = 2
    /\ folders = {[id |-> 1, user_id |-> "u1", name |-> <<"b">>]}
    /\ dirs = {<<"u1">>, <<"u1", <<"b">>>>}

----------------------------------------------------------------------------
(* add_folder_to_project against delete_project *)

\* C21: every add_folder_to_project call, also one that a delete_project of
\* the same project overtakes between its ownership check and its final
\* find_one_and_update, ends in one of two ways: it fails with 404, or it
\* returns 200 with a project record that is in the store, belongs to the
\* caller and lists the requested folder id.  It never returns 200 with no
\* project.
C21_AddFolderOutcome ==
    [][\A r \in Slots :
         /\ (/\ req[r].pc = "idle" /\ req' = req
             /\ resp'.op = "add_folder_to_project"
             /\ \E u \in run.tenants, pid \in ProjectIds, fid \in FolderIds :
                   add_folder_find_project(r, u, pid, fid)) =>
                resp'.status = 404
         /\ (/\ req[r].op = "add_folder_to_project"
             /\ req'[r].pc = "idle") =>
                /\ resp'.op = "add_folder_to_project"
                /\ \/ resp'.status = 404
                   \/ /\ resp'.status = 200
                      /\ Len(resp'.data) = 1
                      /\ resp'.data[1] \in projects'
                      /\ resp'.data[1].id = req[r].id
                      /\ resp'.data[1].user_id = req[r].user
                      /\ req[r].fid \in Range(resp'.data[1].folder_ids)]_vars

\* an add_folder_to_project has passed both of its checks and the project
\* it is about to update has been deleted by a delete_project that returned
C21_ProjectDeletedUnderway ==
    /\ resp.op = "delete_project" /\ resp.status = 204
    /\ \E r \in Slots :
          /\ req[r].op = "add_folder_to_project" /\ req[r].pc = "add"
          /\ req[r].user = resp.user
          /\ \A p \in projects : p.id # req[r].id
====
